---- MODULE Spec2Model ----
(***************************************************************************)
(* A model of HumanEval (src/src/human_eval.cpp, human_eval.h): the        *)
(* imbalance analysis, the style weighting and the explanation generator   *)
(* of the chess engine.  A bitboard (uint64_t) is the set of its squares,  *)
(* 0 (a1) .. 63 (h8); file = sq % 8, rank = sq / 8.  The Board is the      *)
(* read-only query surface of the spec (section 2, BoardView).             *)
(***************************************************************************)
EXTENDS Integers, FiniteSets, Sequences, TLC

VARIABLES
    bd,             \* the position the caller holds (const Board&)
    current_style,  \* static PlayingStyle current_style
    mults,          \* the five static multiplier tables, in tenths
    ia,             \* the ImbalanceAnalysis record the caller holds
    iaStyle,        \* the current style when that record was returned
    discCalls,      \* direct calculatePositionalDiscounts calls on that record
    ubShift,        \* what the build makes of the undefined shift 1ULL << -1
    inflight,       \* an analyzeImbalances call another thread is inside of
    ret             \* the last call: its name, arguments and return value

vars == <<bd, current_style, mults, ia, iaStyle, discCalls, ubShift, inflight, ret>>

----------------------------------------------------------------------------
(* Colours, piece kinds and castling flags of the board interface.         *)

WHITE == 0
BLACK == 1
PAWNS == 0
KNIGHTS == 1
BISHOPS == 2
ROOKS == 3
QUEENS == 4
KINGS == 5

Colors == {WHITE, BLACK}
Kinds == PAWNS..KINGS
Squares == 0..63

\* The four wing flags and the per-side masks of getCastlingRights().
WHITEKSIDE == {"WK"}
WHITEQSIDE == {"WQ"}
BLACKKSIDE == {"BK"}
BLACKQSIDE == {"BQ"}
WHITECASTLE == {"WK", "WQ"}
BLACKCASTLE == {"BK", "BQ"}
AllCastle == WHITECASTLE \cup BLACKCASTLE

getPieces(b, color, kind) == b.pieces[color][kind]
getKingSq(b, color) == CHOOSE s \in Squares : s \in b.pieces[color][KINGS]
getCastlingRights(b) == b.castle
getPlayerToMove(b) == b.stm

File(sq) == sq % 8
Rank(sq) == sq \div 8
Sq(f, r) == f + r * 8
Abs(x) == IF x < 0 THEN -x ELSE x
\* C++ integer division truncates toward zero.
Div(a, b) == IF a >= 0 THEN a \div b ELSE -((-a) \div b)
popcount(bb) == Cardinality(bb)
\* the mask fm of one file, as the loops over rk build it
FileMask(f) == {Sq(f, r) : r \in 0..7}
BoolInt(x) == IF x THEN 1 ELSE 0

\* One side's bitboards, kind -> squares.
Side(p, n, b, r, q, k) ==
    [kd \in Kinds |-> CASE kd = PAWNS -> p [] kd = KNIGHTS -> n
                        [] kd = BISHOPS -> b [] kd = ROOKS -> r
                        [] kd = QUEENS -> q [] OTHER -> k]
\* A position: bitboards per (colour, kind), castling rights, side to move.
Board(w, b, castle, stm) ==
    [pieces |-> [c \in Colors |-> IF c = WHITE THEN w ELSE b],
     castle |-> castle, stm |-> stm]

----------------------------------------------------------------------------
(* PAWN STRUCTURE                                                          *)

isIsolatedPawn(b, color, sq) ==
    LET file == File(sq)
        own == getPieces(b, color, PAWNS)
    IN  /\ ~(file > 0 /\ own \cap FileMask(file - 1) # {})
        /\ ~(file < 7 /\ own \cap FileMask(file + 1) # {})

\* for (r = (color == WHITE ? 0 : rank + 1); r < rank; r++)
isDoubledPawn(b, color, sq) ==
    LET file == File(sq)
        rank == Rank(sq)
        own == getPieces(b, color, PAWNS)
        lo == IF color = WHITE THEN 0 ELSE rank + 1
    IN  \E r \in lo..(rank - 1) : Sq(file, r) \in own

\* own & (1ULL << a): a shift by -1 is undefined; ubShift is its outcome.
TestBit(bb, a) == IF a < 0 \/ a > 63 THEN ubShift ELSE a \in bb

\* the attack masks of lines 87-89: shifts with the masks as written
PawnAtt(opp, color) ==
    IF color = WHITE
    THEN {s - 9 : s \in {t \in opp : t - 9 >= 0 /\ File(t - 9) # 0}}
         \cup {s - 7 : s \in {t \in opp : t - 7 >= 0 /\ File(t - 7) # 7}}
    ELSE {s + 9 : s \in {t \in opp : t + 9 <= 63 /\ File(t + 9) # 7}}
         \cup {s + 7 : s \in {t \in opp : t + 7 <= 63 /\ File(t + 7) # 0}}

isBackwardPawn(b, color, sq) ==
    LET file == File(sq)
        own == getPieces(b, color, PAWNS)
        opp == getPieces(b, 1 - color, PAWNS)
        fwd == IF color = WHITE THEN 8 ELSE -8
        psq == sq + fwd
        a1 == IF color = WHITE THEN psq - 1 ELSE psq + 1
        a2 == IF color = WHITE THEN psq + 1 ELSE psq - 1
        prot == \/ (file > 0 /\ a1 >= 0 /\ TestBit(own, a1))
                \/ (file < 7 /\ a2 < 64 /\ TestBit(own, a2))
    IN  IF psq < 0 \/ psq >= 64 THEN FALSE
        ELSE ~prot /\ sq \in PawnAtt(opp, color)

\* lines 96-97 index the own pawns by f * 8 + rank
isPassedPawn(b, color, sq) ==
    LET file == File(sq)
        rank == Rank(sq)
        own == getPieces(b, color, PAWNS)
        opp == getPieces(b, 1 - color, PAWNS)
        cr == IF color = WHITE THEN rank + 1 ELSE rank - 1
        m == (IF file > 0 THEN {Sq(file - 1, cr)} ELSE {})
             \cup (IF file < 7 THEN {Sq(file + 1, cr)} ELSE {})
    IN  IF \E f \in 0..(file - 1) : (f * 8 + rank) \in own THEN FALSE
        ELSE IF \E f \in (file + 1)..7 : (f * 8 + rank) \in own THEN FALSE
        ELSE IF cr >= 0 /\ cr < 8 /\ opp \cap m # {} THEN FALSE
        ELSE TRUE

isCandidatePawn(b, color, sq) ==
    LET file == File(sq)
        rank == Rank(sq)
        own == getPieces(b, color, PAWNS)
        opp == getPieces(b, 1 - color, PAWNS)
        fwd == IF color = WHITE THEN 8 ELSE -8
        bs == sq + fwd
        fr == IF color = WHITE THEN rank + 1 ELSE rank - 1
        fm == (IF file > 0 THEN {Sq(file - 1, fr)} ELSE {})
              \cup (IF file < 7 THEN {Sq(file + 1, fr)} ELSE {})
        ar == IF color = WHITE THEN rank + 2 ELSE rank - 2
        am == (IF file > 0 THEN {Sq(file - 1, ar)} ELSE {})
              \cup (IF file < 7 THEN {Sq(file + 1, ar)} ELSE {})
    IN  IF bs >= 0 /\ bs < 64 /\ bs \in own THEN FALSE
        ELSE IF /\ fr >= 0 /\ fr < 8 /\ opp \cap fm # {}
                /\ ar >= 0 /\ ar < 8 /\ opp \cap am = {}
             THEN TRUE
        ELSE isPassedPawn(b, color, sq)

\* the four neighbours dx/dy of the flood fill
Neighbours(cur) ==
    LET f == File(cur)
        r == Rank(cur)
    IN  {Sq(n[1], n[2]) : n \in {m \in {<<f - 1, r>>, <<f + 1, r>>, <<f, r - 1>>, <<f, r + 1>>} :
                                   m[1] >= 0 /\ m[1] < 8 /\ m[2] >= 0 /\ m[2] < 8}}

\* the squares the queue reaches from `seen` within the pawn set p
RECURSIVE Flood(_, _)
Flood(p, seen) ==
    LET more == {ns \in p : ns \notin seen /\ \E cur \in seen : ns \in Neighbours(cur)}
    IN  IF more = {} THEN seen ELSE Flood(p, seen \cup more)

\* the sizes sz, one per unvisited lowest square
RECURSIVE IslandSizes(_, _)
IslandSizes(p, left) ==
    IF left = {} THEN <<>>
    ELSE LET sq == CHOOSE s \in left : \A t \in left : s <= t
             c == Flood(p, {sq})
         IN  <<Cardinality(c)>> \o IslandSizes(p, left \ c)

RECURSIVE SumSeq(_)
SumSeq(s) == IF s = <<>> THEN 0 ELSE Head(s) + SumSeq(Tail(s))

countPawnIslands(b, color) ==
    LET p == getPieces(b, color, PAWNS)
        sz == IslandSizes(p, p)
        islands == Len(sz)
        t == SumSeq(sz)
    IN  [islands |-> islands, avg |-> IF islands > 0 THEN t \div islands ELSE 0]

\* the value a PawnStructure has before the call (the member initialisers)
PawnStructure0 ==
    [isolated_count |-> 0, doubled_count |-> 0, backward_count |-> 0,
     passed_count |-> 0, candidate_count |-> 0, island_count |-> 0,
     avg_island_size |-> 0, connected_count |-> 0, phalanx_count |-> 0,
     has_chain |-> FALSE, chain_base |-> -1, chain_direction |-> 0]

MinOf(S, dflt) == IF S = {} THEN dflt ELSE CHOOSE x \in S : \A y \in S : x <= y
MaxOf(S, dflt) == IF S = {} THEN dflt ELSE CHOOSE x \in S : \A y \in S : x >= y

\* a faulty tally that forgets to take the isolated pawns out
ConnectedCountAll(p, isolated) == popcount(p)

\* line 172
ConnectedCount(p, isolated) == popcount(p) - isolated

analyzePawnStructure(b, color, ps) ==
    LET p == getPieces(b, color, PAWNS)
        isolated == Cardinality({sq \in p : isIsolatedPawn(b, color, sq)})
        isl == countPawnIslands(b, color)
        minr == MinOf({Rank(sq) : sq \in p}, 8)
        maxr == MaxOf({Rank(sq) : sq \in p}, -1)
        chain == maxr - minr >= 2
    IN  [ps EXCEPT
            !.isolated_count = isolated,
            !.doubled_count = Cardinality({sq \in p : isDoubledPawn(b, color, sq)}),
            !.backward_count = Cardinality({sq \in p : isBackwardPawn(b, color, sq)}),
            !.passed_count = Cardinality({sq \in p : isPassedPawn(b, color, sq)}),
            !.candidate_count = Cardinality({sq \in p : isCandidatePawn(b, color, sq)}),
            !.connected_count = ConnectedCount(p, isolated),
            !.island_count = isl.islands,
            !.avg_island_size = isl.avg,
            !.phalanx_count = Cardinality({sq \in p : File(sq) < 7 /\ (sq + 1) \in p}),
            !.has_chain = chain,
            !.chain_base = IF chain THEN (IF color = WHITE THEN maxr ELSE minr) ELSE @]

----------------------------------------------------------------------------
(* PIECE ACTIVITY                                                          *)

KNIGHT_OUTPOST ==
    <<-5,-5,-5,-5,-5,-5,-5,-5, -5,0,0,0,0,0,0,-5, -5,0,5,5,5,5,0,-5, -5,0,5,10,10,5,0,-5,
      -5,0,5,10,10,5,0,-5, -5,0,3,5,5,3,0,-5, -5,0,0,0,0,0,0,-5, -5,-5,-5,-5,-5,-5,-5,-5>>

BISHOP_LONG_DIAGONAL ==
    <<0,0,0,0,0,0,0,0, 0,0,0,0,0,0,0,0, 0,0,5,5,5,5,0,0, 0,0,5,10,10,5,0,0,
      0,0,5,10,15,5,0,0, 0,0,5,10,10,5,0,0, 0,0,5,5,5,5,0,0, 0,0,0,0,0,0,0,0>>

ROOK_7TH_RANK ==
    <<0,0,0,0,0,0,0,0, 10,10,10,10,10,10,10,10, 0,0,0,0,0,0,0,0, 0,0,0,0,0,0,0,0,
      0,0,0,0,0,0,0,0, 0,0,0,0,0,0,0,0, 0,0,0,0,0,0,0,0, 0,0,0,0,0,0,0,0>>

\* 7 - (abs(f - 3) + abs(r - 3))
Central(sq) == 7 - (Abs(File(sq) - 3) + Abs(Rank(sq) - 3))

evaluateKnight(b, color, sq) == KNIGHT_OUTPOST[sq + 1] + Central(sq) * 3

evaluateBishop(b, color, sq) ==
    BISHOP_LONG_DIAGONAL[sq + 1] + Central(sq) * 3
    + (IF popcount(getPieces(b, color, BISHOPS)) >= 2 THEN 30 ELSE 0)

evaluateRook(b, color, sq) ==
    LET f == File(sq)
        r == Rank(sq)
        pawns == getPieces(b, color, PAWNS)
        s7 == IF (color = WHITE /\ r = 6) \/ (color = BLACK /\ r = 1)
              THEN ROOK_7TH_RANK[sq + 1] ELSE 0
    IN  s7 + (IF pawns \cap FileMask(f) = {} THEN 20
              ELSE IF (IF color = WHITE THEN 56 + f ELSE f) \notin pawns THEN 10
              ELSE 0)

evaluateQueen(b, color, sq) ==
    LET r == Rank(sq)
    IN  Central(sq) * 4
        - (IF /\ (color = WHITE /\ r > 3) \/ (color = BLACK /\ r < 4)
              /\ (getPieces(b, color, KNIGHTS) # {} \/ getPieces(b, color, BISHOPS) # {})
           THEN 15 ELSE 0)

RECURSIVE SumOver(_, _, _, _)
\* the sum of Op(b, color, sq) over the squares of a bitboard
SumOver(Op(_, _, _), b, color, bb) ==
    IF bb = {} THEN 0
    ELSE LET sq == CHOOSE s \in bb : \A t \in bb : s <= t
         IN  Op(b, color, sq) + SumOver(Op, b, color, bb \ {sq})

PieceActivity0 ==
    [knight_activity |-> 0, bishop_activity |-> 0, rook_activity |-> 0,
     queen_activity |-> 0, total_activity |-> 0, has_outpost_knight |-> FALSE,
     has_bishop_long_diagonal |-> FALSE, has_rook_7th_rank |-> FALSE,
     has_rook_open_file |-> FALSE, has_queen_central |-> FALSE]

analyzePieceActivity(b, color, pa) ==
    LET n == getPieces(b, color, KNIGHTS)
        bi == getPieces(b, color, BISHOPS)
        r == getPieces(b, color, ROOKS)
        q == getPieces(b, color, QUEENS)
    IN  [pa EXCEPT
            !.total_activity = SumOver(evaluateKnight, b, color, n)
                               + SumOver(evaluateBishop, b, color, bi)
                               + SumOver(evaluateRook, b, color, r)
                               + SumOver(evaluateQueen, b, color, q),
            !.has_outpost_knight = \E sq \in n : evaluateKnight(b, color, sq) > 10,
            !.has_bishop_long_diagonal = \E sq \in bi : evaluateBishop(b, color, sq) > 10,
            !.has_rook_7th_rank = \E sq \in r : evaluateRook(b, color, sq) > 15,
            !.has_rook_open_file = \E sq \in r : evaluateRook(b, color, sq) >= 20]

----------------------------------------------------------------------------
(* KING SAFETY                                                             *)

evaluateKingSafety(b, color) ==
    LET ks == getKingSq(b, color)
        f == File(ks)
        can_castle == getCastlingRights(b)
                        \cap (IF color = WHITE THEN WHITECASTLE ELSE BLACKCASTLE) # {}
        pawns == getPieces(b, color, PAWNS)
    IN  IF ~can_castle
        THEN (IF (color = WHITE /\ ks >= 56) \/ (color = BLACK /\ ks <= 7) THEN -25 ELSE 0)
             + (IF color = WHITE
                THEN BoolInt(5 \in pawns) * 5 + BoolInt(6 \in pawns) * 5
                ELSE BoolInt(61 \in pawns) * 5 + BoolInt(62 \in pawns) * 5)
             + (IF f <= 1 \/ f >= 6 THEN -10 ELSE 0)
        ELSE 20

----------------------------------------------------------------------------
(* INITIATIVE                                                              *)

\* uint64_t shifts: bits moved past either end of the 64 are lost
ShiftR(bb, n) == {s - n : s \in {t \in bb : t - n >= 0}}
ShiftL(bb, n) == {s + n : s \in {t \in bb : t + n <= 63}}
RankMask(r) == {Sq(f, r) : f \in 0..7}

\* lines 327-332: (pawns & 0xFF000000000000) >> 56, (pawns & 0xFF) << 56
AdvPawns(pawns, color) ==
    IF color = WHITE THEN ShiftR(pawns \cap RankMask(6), 56)
    ELSE ShiftL(pawns \cap RankMask(0), 56)

\* line 310: the centre box of the bishop/queen count
InBox(sq) == File(sq) >= 2 /\ File(sq) <= 5 /\ Rank(sq) >= 2 /\ Rank(sq) <= 5

countForcingMoves(b, color) ==
    LET knights == getPieces(b, color, KNIGHTS)
        bishops == getPieces(b, color, BISHOPS)
        rooks == getPieces(b, color, ROOKS)
        queens == getPieces(b, color, QUEENS)
        pawns == getPieces(b, color, PAWNS)
        bq == bishops \cup queens
        rq == rooks \cup queens
    IN  popcount(knights)
        + 2 * Cardinality({sq \in bq : InBox(sq)})
        + Cardinality({sq \in bq : ~InBox(sq)})
        + 2 * Cardinality({sq \in rq : pawns \cap FileMask(File(sq)) = {}})
        + Cardinality({sq \in rq : pawns \cap FileMask(File(sq)) # {}})
        + popcount(AdvPawns(pawns, color)) * 2

assessPawnBreakTiming(b, color) ==
    LET white_pawns == getPieces(b, WHITE, PAWNS)
        black_pawns == getPieces(b, BLACK, PAWNS)
        white_e4_ready == 12 \in white_pawns
        white_d4_ready == 11 \in white_pawns
        black_e5_ready == 52 \in black_pawns
        black_d5_ready == 51 \in black_pawns
    IN  BoolInt(white_e4_ready /\ ~black_e5_ready) * 15
        + BoolInt(white_d4_ready /\ ~black_d5_ready) * 15
        - BoolInt(black_e5_ready /\ ~white_e4_ready) * 15
        - BoolInt(black_d5_ready /\ ~white_d4_ready) * 15

\* line 406: the back-rank mask br of each colour
BackRanks(color) == IF color = WHITE THEN RankMask(7) \cup RankMask(0) ELSE RankMask(0)

\* lines 428-429
CenterMask == {27, 28, 35, 36, 26, 37, 19, 44}

evaluateInitiative(b, color) ==
    LET has_move == getPlayerToMove(b) = color
        forcing_moves == countForcingMoves(b, color)
        opp_forcing_moves == countForcingMoves(b, 1 - color)
        tempo == IF has_move
                 THEN (IF forcing_moves > opp_forcing_moves THEN 20
                       ELSE IF forcing_moves = opp_forcing_moves THEN 10
                       ELSE 5)
                 ELSE (IF opp_forcing_moves > forcing_moves + 2 THEN -10
                       ELSE IF opp_forcing_moves > forcing_moves THEN -5
                       ELSE 0)
        act == (getPieces(b, color, KNIGHTS) \cup getPieces(b, color, BISHOPS)
                \cup getPieces(b, color, ROOKS) \cup getPieces(b, color, QUEENS))
               \ BackRanks(color)
        pawns == getPieces(b, color, PAWNS)
        open == Cardinality({f \in 0..7 : pawns \cap FileMask(f) = {}})
        break_score == assessPawnBreakTiming(b, color)
        own_center == CenterMask \cap (getPieces(b, color, PAWNS)
                        \cup getPieces(b, color, KNIGHTS) \cup getPieces(b, color, BISHOPS))
    IN  tempo + popcount(act) * 3 + open * 3
        + (IF color = WHITE THEN break_score ELSE -break_score)
        + popcount(own_center) * 2

----------------------------------------------------------------------------
(* TYPICAL PLANS AND PAWN STORM                                            *)

detectMinorityAttack(b, color) ==
    LET p == getPieces(b, color, PAWNS)
        qsc == Cardinality({sq \in p : File(sq) <= 2})
        ksc == Cardinality({sq \in p : File(sq) >= 5})
    IN  qsc <= 2 /\ qsc < ksc

detectRookOnOpenFile(b, color) ==
    LET r == getPieces(b, color, ROOKS)
        p == getPieces(b, color, PAWNS)
    IN  \E f \in 0..7 : p \cap FileMask(f) = {} /\ r \cap FileMask(f) # {}

detectRookOn7th(b, color) ==
    LET rank == IF color = WHITE THEN 6 ELSE 1
    IN  getPieces(b, color, ROOKS) \cap RankMask(rank) # {}

detectOppositeCastling(b) ==
    LET white_kside == getCastlingRights(b) \cap WHITEQSIDE = {}
        black_qside == getCastlingRights(b) \cap BLACKKSIDE = {}
        white_qside == getCastlingRights(b) \cap WHITEKSIDE = {}
        black_kside == getCastlingRights(b) \cap BLACKQSIDE = {}
    IN  (white_kside /\ black_qside) \/ (white_qside /\ black_kside)

\* the advance one pawn adds to storm_count
StormAdvance(b, color, sq) ==
    LET file == File(sq)
        rank == Rank(sq)
        own == getPieces(b, color, PAWNS)
        home == IF color = WHITE THEN 1 ELSE 6
        next == IF color = WHITE THEN 2 ELSE 5
        free == Sq(file, next) \notin own
    IN  IF file < 5 \/ file > 7 THEN 0
        ELSE IF file = 6
             THEN (IF rank = home /\ free THEN 4 ELSE IF rank = next THEN 3 ELSE 0)
             ELSE (IF rank = home /\ free THEN 3 ELSE IF rank = next THEN 2 ELSE 0)

countPawnStorm(b, color) == SumOver(StormAdvance, b, color, getPieces(b, color, PAWNS))

evaluatePawnStorm(b, color) ==
    IF ~detectOppositeCastling(b) THEN 0 ELSE countPawnStorm(b, color) * 5

isKingVulnerableToStorm(b, color) ==
    LET king_sq == getKingSq(b, color)
        file == File(king_sq)
    IN  IF ~detectOppositeCastling(b) THEN FALSE
        ELSE IF color = WHITE THEN (file <= 1 \/ king_sq >= 56)
        ELSE (file <= 1 \/ king_sq <= 7)

----------------------------------------------------------------------------
(* ENDGAME PRINCIPLES                                                      *)

KEY_SQUARES_WHITE ==
    <<0,0,0,0,0,0,0,0, 0,0,0,0,0,0,0,0, 0,0,0,0,0,0,0,0, 0,0,0,5,5,0,0,0,
      0,0,0,5,5,0,0,0, 0,0,0,5,5,0,0,0, 0,0,0,0,0,0,0,0, 0,0,0,0,0,0,0,0>>

evaluateEndgameKing(b, color) ==
    LET ks == getKingSq(b, color)
        oks == getKingSq(b, 1 - color)
        center_dist == Abs(File(ks) - 4) + Abs(Rank(ks) - 4)
        opp_center == Abs(File(oks) - 4) + Abs(Rank(oks) - 4)
    IN  (IF center_dist < opp_center THEN (opp_center - center_dist) * 10 ELSE 0)
        + KEY_SQUARES_WHITE[ks + 1]

\* king_mobility: the on-board squares next to the square sq
KingMobility(sq) ==
    {nsq \in {sq + d : d \in {-9, -8, -7, -1, 1, 7, 8, 9}} :
        /\ nsq >= 0 /\ nsq < 64
        /\ Abs(File(nsq) - File(sq)) <= 1
        /\ Abs(Rank(nsq) - Rank(sq)) <= 1}

\* corners | edges, edges being 0xFF000000000000FF | 0xFF00FF00FF00FF00
RestrictedMask ==
    {0, 7, 56, 63} \cup RankMask(0) \cup RankMask(7)
    \cup RankMask(1) \cup RankMask(3) \cup RankMask(5) \cup RankMask(7)

\* opp_outposts: the outpost squares free of the side's pawns and minors
OppOutposts(b, color) ==
    {27, 28, 35, 36, 26, 37, 19, 44}
    \ (getPieces(b, color, PAWNS) \cup getPieces(b, color, KNIGHTS)
        \cup getPieces(b, color, BISHOPS))

evaluateProphylaxis(b, color) ==
    LET opp == 1 - color
        king_mobility == KingMobility(getKingSq(b, opp))
        restricted == (getPieces(b, opp, KNIGHTS) \cup getPieces(b, opp, BISHOPS))
                      \cap RestrictedMask
    IN  Div(64 - popcount(king_mobility), 2)
        + popcount(restricted) * 5
        + popcount(OppOutposts(b, color)) * 2

\* a faulty classifier that calls kings two squares apart directly opposed
getOppositionTypeNear(b) ==
    LET wk == getKingSq(b, WHITE)
        bk == getKingSq(b, BLACK)
        file_diff == Abs(File(wk) - File(bk))
        rank_diff == Abs(Rank(wk) - Rank(bk))
    IN  IF file_diff = rank_diff /\ file_diff % 2 = 1 THEN "DIAGONAL"
        ELSE IF rank_diff = 0 /\ file_diff > 0
             THEN (IF file_diff % 2 = 1 \/ file_diff = 2 THEN "DIRECT" ELSE "DISTANT")
        ELSE IF file_diff = 0 /\ rank_diff > 0
             THEN (IF rank_diff % 2 = 1 \/ rank_diff = 2 THEN "DIRECT" ELSE "DISTANT")
        ELSE "NONE"

getOppositionType(b) ==
    LET wk == getKingSq(b, WHITE)
        bk == getKingSq(b, BLACK)
        file_diff == Abs(File(wk) - File(bk))
        rank_diff == Abs(Rank(wk) - Rank(bk))
    IN  IF file_diff = rank_diff /\ file_diff % 2 = 1 THEN "DIAGONAL"
        ELSE IF rank_diff = 0 /\ file_diff > 0
             THEN (IF file_diff % 2 = 1 THEN "DIRECT" ELSE "DISTANT")
        ELSE IF file_diff = 0 /\ rank_diff > 0
             THEN (IF rank_diff % 2 = 1 THEN "DIRECT" ELSE "DISTANT")
        ELSE "NONE"

evaluateOpposition(b, color) ==
    LET opp == getOppositionType(b)
        white_to_move == getPlayerToMove(b) = WHITE
    IN  IF opp = "DIRECT"
        THEN (IF color = WHITE THEN (IF white_to_move THEN 30 ELSE -30)
              ELSE (IF white_to_move THEN -30 ELSE 30))
        ELSE IF opp = "DISTANT" THEN (IF color = WHITE THEN 15 ELSE -15)
        ELSE IF opp = "DIAGONAL" THEN (IF color = WHITE THEN 10 ELSE -10)
        ELSE 0

\* one rook's score: the first pawn the loop r = 0..7 meets on its file
RookPlacement(b, color, rsq) ==
    LET rf == File(rsq)
        rr == Rank(rsq)
        pawns == getPieces(b, color, PAWNS)
        onfile == {r \in 0..7 : Sq(rf, r) \in pawns}
        pr == MinOf(onfile, -1)
        r_color == (rr + rf) % 2
        p_color == (pr + rf) % 2
        rook_behind == (color = WHITE /\ rr < pr) \/ (color = BLACK /\ rr > pr)
    IN  IF onfile = {} \/ ~rook_behind THEN 0
        ELSE IF r_color = p_color THEN -25 ELSE 15

evaluateRookPlacement(b, color) ==
    SumOver(RookPlacement, b, color, getPieces(b, color, ROOKS))

\* the pieces counted by w_piece_count / b_piece_count
NonPawns(b, color) ==
    getPieces(b, color, KNIGHTS) \cup getPieces(b, color, BISHOPS)
    \cup getPieces(b, color, ROOKS) \cup getPieces(b, color, QUEENS)

evaluatePatience(b, color) ==
    LET is_pawn_endgame == popcount(NonPawns(b, WHITE)) = 0 /\ popcount(NonPawns(b, BLACK)) = 0
        white_to_move == getPlayerToMove(b) = WHITE
    IN  IF /\ is_pawn_endgame
           /\ getOppositionType(b) = "DIRECT"
           /\ ((color = WHITE /\ white_to_move) \/ (color = BLACK /\ ~white_to_move))
        THEN 40 ELSE 0

evaluateEndgame(b, color) ==
    evaluateEndgameKing(b, color) + evaluateOpposition(b, color)
    + evaluateRookPlacement(b, color) + evaluatePatience(b, color)

----------------------------------------------------------------------------
(* SACRIFICES                                                              *)

\* a faulty detector with the two piece values exchanged
detectExchangeSacrificeSwapped(b, color, discount) ==
    LET r == popcount(getPieces(b, color, ROOKS))
        or_ == popcount(getPieces(b, 1 - color, ROOKS))
        m == popcount(getPieces(b, color, KNIGHTS)) + popcount(getPieces(b, color, BISHOPS))
        om == popcount(getPieces(b, 1 - color, KNIGHTS)) + popcount(getPieces(b, 1 - color, BISHOPS))
    IN  IF r < or_ /\ m > om
        THEN [found |-> TRUE, discount |-> (or_ - r) * 330 - (m - om) * 500]
        ELSE [found |-> FALSE, discount |-> discount]

\* returns the flag and the value left in the reference parameter discount
detectExchangeSacrifice(b, color, discount) ==
    LET r == popcount(getPieces(b, color, ROOKS))
        or_ == popcount(getPieces(b, 1 - color, ROOKS))
        m == popcount(getPieces(b, color, KNIGHTS)) + popcount(getPieces(b, color, BISHOPS))
        om == popcount(getPieces(b, 1 - color, KNIGHTS)) + popcount(getPieces(b, 1 - color, BISHOPS))
    IN  IF r < or_ /\ m > om
        THEN [found |-> TRUE, discount |-> (or_ - r) * 500 - (m - om) * 330]
        ELSE [found |-> FALSE, discount |-> discount]

----------------------------------------------------------------------------
(* STYLE MANAGEMENT                                                        *)

Styles == {"CLASSICAL", "ATTACKING", "TACTICAL", "POSITIONAL", "TECHNICAL"}

\* lines 16-20, the doubles in tenths
InitMults ==
    [classical_mults |-> <<10, 10>>, attacking_mults |-> <<12, 8>>,
     tactical_mults |-> <<13, 6>>, positional_mults |-> <<7, 13>>,
     technical_mults |-> <<6, 14>>]

\* the table the switch of getStyleMultipliers selects
StyleTable(style) ==
    CASE style = "CLASSICAL" -> "classical_mults"
      [] style = "ATTACKING" -> "attacking_mults"
      [] style = "TACTICAL" -> "tactical_mults"
      [] style = "POSITIONAL" -> "positional_mults"
      [] style = "TECHNICAL" -> "technical_mults"
      [] OTHER -> "classical_mults"

getStyleMultipliers == mults[StyleTable(current_style)]

\* a faulty setter that leaves the style as it was
KeptStyle(style) == current_style

\* what setStyle(style) stores
StoredStyle(style) == style

----------------------------------------------------------------------------
(* MAIN EVALUATION                                                         *)

\* ImbalanceAnalysis ia = {}
ImbalanceAnalysis0 ==
    [material |-> 0, pawn_structure |-> 0, space |-> 0, development |-> 0,
     initiative |-> 0, king_safety |-> 0, activity |-> 0,
     white_pawns |-> PawnStructure0, black_pawns |-> PawnStructure0,
     white_activity |-> PieceActivity0, black_activity |-> PieceActivity0,
     white_has_passed_pawn |-> FALSE, black_has_passed_pawn |-> FALSE,
     white_has_isolated |-> FALSE, black_has_isolated |-> FALSE,
     white_has_doubled |-> FALSE, black_has_doubled |-> FALSE,
     white_king_exposed |-> FALSE, black_king_exposed |-> FALSE,
     exchange_sacrifice |-> FALSE, pawn_sacrifice |-> FALSE, piece_sacrifice |-> FALSE,
     exchange_discount |-> 0, initiative_discount |-> 0, king_safety_discount |-> 0,
     minority_attack |-> FALSE, open_file |-> FALSE, rook_on_7th |-> FALSE,
     wrong_rook_pawn |-> FALSE, opposite_castling |-> FALSE, pawn_storm |-> FALSE,
     pawn_storm_strength |-> 0,
     is_endgame |-> FALSE, king_activity_white |-> 0, king_activity_black |-> 0,
     opposition_status |-> 0]

\* a faulty start that reuses the record of the previous call
StaleAnalysis == ia

\* line 1023: the record the aggregation starts from
FreshAnalysis == ImbalanceAnalysis0

\* int pv[5] = {100, 320, 330, 500, 900}
PieceValues == <<100, 320, 330, 500, 900>>

\* lines 1026-1030: the kinds pt + 1 for pt = 0..4
RECURSIVE MaterialFrom(_, _)
MaterialFrom(b, pt) ==
    IF pt >= 5 THEN 0
    ELSE (popcount(getPieces(b, WHITE, pt + 1)) - popcount(getPieces(b, BLACK, pt + 1)))
            * PieceValues[pt + 1]
         + MaterialFrom(b, pt + 1)

AllPieces(b, color) == UNION {getPieces(b, color, kd) : kd \in Kinds}

\* lines 1049-1051
SpaceDiff(b) ==
    LET wm == AllPieces(b, WHITE)
        bm == AllPieces(b, BLACK)
        ws == Cardinality({sq \in 0..31 : sq \in wm})
        bs == Cardinality({sq \in 0..31 : (sq + 32) \in bm})
    IN  (ws - bs) * 5

\* lines 1053-1059; wbr and bbr are the two back-rank masks
DevelopmentDiff(b) ==
    LET wbr == RankMask(7) \cup RankMask(0)
        bbr == RankMask(0)
        wd == popcount(NonPawns(b, WHITE) \ wbr)
        bd_dev == popcount(NonPawns(b, BLACK) \ bbr)
    IN  (wd - bd_dev) * 30

\* line 1082
IsEndgame(material) == material < 2500

\* a faulty weighting whose halving rounds toward minus infinity
calculatePositionalDiscountsFloor(a, style) ==
    LET a1 == IF style \in {"ATTACKING", "TACTICAL"}
              THEN [a EXCEPT !.exchange_discount = @ * 2, !.initiative_discount = 50]
              ELSE IF style \in {"POSITIONAL", "TECHNICAL"}
              THEN [a EXCEPT !.exchange_discount = @ \div 2]
              ELSE a
        a2 == IF a1.black_king_exposed THEN [a1 EXCEPT !.king_safety_discount = 50] ELSE a1
    IN  IF a2.white_king_exposed THEN [a2 EXCEPT !.king_safety_discount = -50] ELSE a2

\* a faulty weighting that tests the two exposure flags in the other order
calculatePositionalDiscountsBlackLast(a, style) ==
    LET a1 == IF style \in {"ATTACKING", "TACTICAL"}
              THEN [a EXCEPT !.exchange_discount = @ * 2, !.initiative_discount = 50]
              ELSE IF style \in {"POSITIONAL", "TECHNICAL"}
              THEN [a EXCEPT !.exchange_discount = Div(@, 2)]
              ELSE a
        a2 == IF a1.white_king_exposed THEN [a1 EXCEPT !.king_safety_discount = -50] ELSE a1
    IN  IF a2.black_king_exposed THEN [a2 EXCEPT !.king_safety_discount = 50] ELSE a2

\* a faulty weighting that writes the attacking bonus into initiative itself
calculatePositionalDiscountsInitiative(a, style) ==
    LET a1 == IF style \in {"ATTACKING", "TACTICAL"}
              THEN [a EXCEPT !.exchange_discount = @ * 2, !.initiative = 50]
              ELSE IF style \in {"POSITIONAL", "TECHNICAL"}
              THEN [a EXCEPT !.exchange_discount = Div(@, 2)]
              ELSE a
        a2 == IF a1.black_king_exposed THEN [a1 EXCEPT !.king_safety_discount = 50] ELSE a1
    IN  IF a2.white_king_exposed THEN [a2 EXCEPT !.king_safety_discount = -50] ELSE a2

calculatePositionalDiscounts(a, style) ==
    LET a1 == IF style \in {"ATTACKING", "TACTICAL"}
              THEN [a EXCEPT !.exchange_discount = @ * 2, !.initiative_discount = 50]
              ELSE IF style \in {"POSITIONAL", "TECHNICAL"}
              THEN [a EXCEPT !.exchange_discount = Div(@, 2)]
              ELSE a
        a2 == IF a1.black_king_exposed THEN [a1 EXCEPT !.king_safety_discount = 50] ELSE a1
    IN  IF a2.white_king_exposed THEN [a2 EXCEPT !.king_safety_discount = -50] ELSE a2

\* the style the final weighting pass reads (line 1107)
WeightingStyle == current_style

\* lines 1023-1105: the record before the weighting pass
AggregateImbalances(b) ==
    LET i0 == FreshAnalysis
        material == i0.material + MaterialFrom(b, 0)
        wp == analyzePawnStructure(b, WHITE, i0.white_pawns)
        bp == analyzePawnStructure(b, BLACK, i0.black_pawns)
        ps1 == i0.pawn_structure
               + (wp.passed_count * 30 - bp.passed_count * 30)
               - (wp.isolated_count * 25 + bp.isolated_count * 25)
               - (wp.backward_count * 20 + bp.backward_count * 20)
               - (wp.doubled_count * 15 + bp.doubled_count * 15)
               + (bp.island_count - wp.island_count) * 10
        wa == analyzePieceActivity(b, WHITE, i0.white_activity)
        ba == analyzePieceActivity(b, BLACK, i0.black_activity)
        ex1 == detectExchangeSacrifice(b, WHITE, i0.exchange_discount)
        ex2 == detectExchangeSacrifice(b, BLACK, ex1.discount)
        is_endgame == IsEndgame(material)
        w_eg == evaluateEndgame(b, WHITE)
        b_eg == evaluateEndgame(b, BLACK)
        oppc == detectOppositeCastling(b)
        a == [i0 EXCEPT
                !.material = material,
                !.white_pawns = wp,
                !.black_pawns = bp,
                !.pawn_structure = IF is_endgame THEN ps1 + Div(w_eg - b_eg, 5) ELSE ps1,
                !.white_activity = wa,
                !.black_activity = ba,
                !.activity = wa.total_activity - ba.total_activity,
                !.space = SpaceDiff(b),
                !.development = DevelopmentDiff(b),
                !.initiative = (IF getPlayerToMove(b) = WHITE THEN 10 ELSE -10)
                               + evaluateInitiative(b, WHITE) - evaluateInitiative(b, BLACK),
                !.king_safety = evaluateKingSafety(b, WHITE) - evaluateKingSafety(b, BLACK),
                !.white_king_exposed = getCastlingRights(b) \cap WHITECASTLE = {}
                                       /\ getKingSq(b, WHITE) >= 56,
                !.black_king_exposed = getCastlingRights(b) \cap BLACKCASTLE = {}
                                       /\ getKingSq(b, BLACK) <= 7,
                !.white_has_passed_pawn = wp.passed_count > 0,
                !.black_has_passed_pawn = bp.passed_count > 0,
                !.white_has_isolated = wp.isolated_count > 0,
                !.black_has_isolated = bp.isolated_count > 0,
                !.white_has_doubled = wp.doubled_count > 0,
                !.black_has_doubled = bp.doubled_count > 0,
                !.exchange_sacrifice = @ \/ ex1.found \/ ex2.found,
                !.exchange_discount = IF ex2.found THEN -ex2.discount ELSE ex2.discount,
                !.minority_attack = detectMinorityAttack(b, WHITE),
                !.open_file = detectRookOnOpenFile(b, WHITE),
                !.rook_on_7th = detectRookOn7th(b, WHITE),
                !.is_endgame = is_endgame,
                !.king_activity_white = IF is_endgame THEN w_eg ELSE @,
                !.king_activity_black = IF is_endgame THEN b_eg ELSE @,
                !.opposition_status = IF is_endgame THEN evaluateOpposition(b, WHITE) ELSE @,
                !.opposite_castling = oppc,
                !.pawn_storm = IF oppc THEN TRUE ELSE @,
                !.pawn_storm_strength = IF oppc
                    THEN evaluatePawnStorm(b, WHITE) - evaluatePawnStorm(b, BLACK) ELSE @,
                !.king_safety_discount = IF oppc
                    THEN 0 - (IF isKingVulnerableToStorm(b, WHITE) THEN 30 ELSE 0)
                           + (IF isKingVulnerableToStorm(b, BLACK) THEN 30 ELSE 0)
                    ELSE @]
    IN  a

analyzeImbalances(b) ==
    calculatePositionalDiscounts(AggregateImbalances(b), WeightingStyle)

----------------------------------------------------------------------------
(* EXPLANATION                                                             *)

\* the notes of a list of (condition, text) pairs, in order
RECURSIVE Emit(_)
Emit(items) ==
    IF items = <<>> THEN <<>>
    ELSE (IF Head(items)[1] THEN <<Head(items)[2]>> ELSE <<>>) \o Emit(Tail(items))

\* a faulty add_vec that puts the separator after every note
RECURSIVE AddVecTrailing(_, _)
AddVecTrailing(text, v) ==
    IF v = <<>> THEN text
    ELSE AddVecTrailing(text \o Head(v) \o " | ", Tail(v))

\* add_vec: append every note, " | " before all but the first
RECURSIVE AddVec(_, _)
AddVec(text, v) ==
    IF v = <<>> THEN text
    ELSE AddVec((IF text # "" THEN text \o " | " ELSE text) \o Head(v), Tail(v))

\* ss << "Mat +" << ia.material/100 << ".0"
MatNote(prefix, material) == prefix \o ToString(Div(material, 100)) \o ".0"

explainMove(b, move, a) ==
    LET imbalance_notes == Emit(<<
            <<a.material > 100, MatNote("Mat +", a.material)>>,
            <<a.material < -100, MatNote("Mat ", a.material)>>,
            <<a.white_pawns.passed_count > 0, "Passed pawn">>,
            <<a.black_pawns.passed_count > 0, "Opp passed pawn">>,
            <<a.white_pawns.isolated_count > 0, "Isolani">>,
            <<a.black_pawns.isolated_count > 0, "Opp isolani">>,
            <<a.initiative > 15, "Strong initiative">>,
            <<a.white_king_exposed, "King safety concern">>,
            <<a.black_king_exposed, "Opp king exposed">>,
            <<a.is_endgame /\ a.king_activity_white > a.king_activity_black, "Active king">>,
            <<a.king_safety_discount < -10, "King exposed to storm">>,
            <<a.king_safety_discount > 10, "Opp king exposed to storm">> >>)
        sacrifice_notes == Emit(<< <<a.exchange_sacrifice, "R for minor">> >>)
        move_reasons == Emit(<<
            <<a.initiative > 15, "Maintain initiative">>,
            <<a.white_king_exposed, "Defend king">>,
            <<a.black_king_exposed, "Attack!">>,
            <<a.development > 60, "Better development">> >>)
        plan_notes == Emit(<<
            <<a.minority_attack, "Minority attack">>,
            <<a.open_file, "Open file">>,
            <<a.rook_on_7th, "7th rank">>,
            <<a.opposition_status > 0, "Have opposition">>,
            <<a.opposition_status < 0, "Opp has opposition">>,
            <<a.opposite_castling, "Opposite castling">>,
            <<a.pawn_storm, "Pawn storm">> >>)
        joined == AddVec(AddVec(AddVec(AddVec("", sacrifice_notes), plan_notes),
                                move_reasons), imbalance_notes)
    IN  [move_reasons |-> move_reasons, imbalance_notes |-> imbalance_notes,
         sacrifice_notes |-> sacrifice_notes, plan_notes |-> plan_notes,
         pv_explanation |-> IF joined = "" THEN "Developing move" ELSE joined]

SacrificeTerms(a, color) ==
    IF color = WHITE
    THEN BoolInt(a.development > 30) * 20 + BoolInt(a.initiative > 0) * 30
         + BoolInt(a.space > 20) * 20
    ELSE BoolInt(a.development < -30) * 20 + BoolInt(a.initiative < 0) * 30
         + BoolInt(a.space < -20) * 20

pawnSacrificeValue(b, color) ==
    SacrificeTerms(analyzeImbalances(b), color)

----------------------------------------------------------------------------
(* POSITIONS                                                               *)

NoSide(k) == Side({}, {}, {}, {}, {}, {k})

\* the standard starting position, White to move, full castling rights
StartPos ==
    Board(Side(8..15, {1, 6}, {2, 5}, {0, 7}, {3}, {4}),
          Side(48..55, {57, 62}, {58, 61}, {56, 63}, {59}, {60}),
          AllCastle, WHITE)

\* White king e1, Black king e3, White to move
OppositionPos == Board(NoSide(4), NoSide(20), {}, WHITE)

\* White: rook a1, knight c3, bishop f4; Black: rooks a8 h8, knight f6
ExchangePos ==
    Board(Side({}, {18}, {29}, {0}, {}, {4}),
          Side({}, {45}, {}, {56, 63}, {}, {60}),
          {}, WHITE)

MainPositions == {StartPos, OppositionPos, ExchangePos}

\* the outcomes of the undefined shift a position can meet: isBackwardPawn
\* shifts by -1 for a Black pawn on a2 (square 8)
UbOutcomes(b) == IF 8 \in getPieces(b, BLACK, PAWNS) THEN BOOLEAN ELSE {FALSE}

----------------------------------------------------------------------------
(* THE STATE MACHINE                                                       *)

MaxDiscCalls == 1

\* no call in flight; pc is "idle", "running" (lines 1023-1105 done, line
\* 1107 not yet) or "returned"; style is current_style when the call began
NoFlight == [pc |-> "idle", style |-> "NONE"]

NoCall == [op |-> "none", color |-> -1, sq |-> -1, arg |-> "", val |-> 0]
Call(op, color, sq, arg, val) ==
    [op |-> op, color |-> color, sq |-> sq, arg |-> arg, val |-> val]

InitWith(positions, styles) ==
    /\ bd \in positions
    /\ current_style \in styles
    /\ mults = InitMults
    /\ ia = ImbalanceAnalysis0
    /\ iaStyle = "NONE"
    /\ discCalls = 0
    /\ ubShift \in UbOutcomes(bd)
    /\ inflight = NoFlight
    /\ ret = NoCall

Init == InitWith(MainPositions, {"CLASSICAL"})

SetStyle(style) ==
    /\ current_style' = StoredStyle(style)
    /\ ret' = Call("setStyle", -1, -1, style, 0)
    /\ UNCHANGED <<bd, mults, ia, iaStyle, discCalls, ubShift, inflight>>

GetStyle ==
    /\ ret' = Call("getStyle", -1, -1, "", current_style)
    /\ UNCHANGED <<bd, current_style, mults, ia, iaStyle, discCalls, ubShift, inflight>>

GetStyleMultipliers ==
    /\ ret' = Call("getStyleMultipliers", -1, -1, "", getStyleMultipliers)
    /\ UNCHANGED <<bd, current_style, mults, ia, iaStyle, discCalls, ubShift, inflight>>

\* the caller keeps the returned record
AnalyzeImbalances ==
    /\ ia' = analyzeImbalances(bd)
    /\ iaStyle' = current_style
    /\ discCalls' = 0
    /\ ret' = Call("analyzeImbalances", -1, -1, "", 0)
    /\ UNCHANGED <<bd, current_style, mults, ubShift, inflight>>

\* a direct call on the caller's record, which it changes in place
CalculatePositionalDiscounts(style) ==
    /\ discCalls < MaxDiscCalls
    /\ ia' = calculatePositionalDiscounts(ia, style)
    /\ discCalls' = discCalls + 1
    /\ ret' = Call("calculatePositionalDiscounts", -1, -1, style, 0)
    /\ UNCHANGED <<bd, current_style, mults, iaStyle, ubShift, inflight>>

ExplainMove ==
    /\ ret' = Call("explainMove", -1, -1, "", explainMove(bd, 0, ia))
    /\ UNCHANGED <<bd, current_style, mults, ia, iaStyle, discCalls, ubShift, inflight>>

PawnSacrificeValue(color) ==
    /\ ret' = Call("pawnSacrificeValue", color, -1, "", pawnSacrificeValue(bd, color))
    /\ UNCHANGED <<bd, current_style, mults, ia, iaStyle, discCalls, ubShift, inflight>>

AnalyzePawnStructure(color) ==
    /\ ret' = Call("analyzePawnStructure", color, -1, "",
                   analyzePawnStructure(bd, color, PawnStructure0))
    /\ UNCHANGED <<bd, current_style, mults, ia, iaStyle, discCalls, ubShift, inflight>>

IsPassedPawn(color, sq) ==
    /\ sq \in getPieces(bd, color, PAWNS)
    /\ ret' = Call("isPassedPawn", color, sq, "", isPassedPawn(bd, color, sq))
    /\ UNCHANGED <<bd, current_style, mults, ia, iaStyle, discCalls, ubShift, inflight>>

IsDoubledPawn(color, sq) ==
    /\ sq \in getPieces(bd, color, PAWNS)
    /\ ret' = Call("isDoubledPawn", color, sq, "", isDoubledPawn(bd, color, sq))
    /\ UNCHANGED <<bd, current_style, mults, ia, iaStyle, discCalls, ubShift, inflight>>

IsBackwardPawn(color, sq) ==
    /\ sq \in getPieces(bd, color, PAWNS)
    /\ ret' = Call("isBackwardPawn", color, sq, "", isBackwardPawn(bd, color, sq))
    /\ UNCHANGED <<bd, current_style, mults, ia, iaStyle, discCalls, ubShift, inflight>>

IsCandidatePawn(color, sq) ==
    /\ sq \in getPieces(bd, color, PAWNS)
    /\ ret' = Call("isCandidatePawn", color, sq, "", isCandidatePawn(bd, color, sq))
    /\ UNCHANGED <<bd, current_style, mults, ia, iaStyle, discCalls, ubShift, inflight>>

EvaluateInitiative(color) ==
    /\ ret' = Call("evaluateInitiative", color, -1, "", evaluateInitiative(bd, color))
    /\ UNCHANGED <<bd, current_style, mults, ia, iaStyle, discCalls, ubShift, inflight>>

EvaluateOpposition(color) ==
    /\ ret' = Call("evaluateOpposition", color, -1, getOppositionType(bd),
                   evaluateOpposition(bd, color))
    /\ UNCHANGED <<bd, current_style, mults, ia, iaStyle, discCalls, ubShift, inflight>>

DetectExchangeSacrifice(color) ==
    /\ ret' = Call("detectExchangeSacrifice", color, -1, "",
                   detectExchangeSacrifice(bd, color, 0))
    /\ UNCHANGED <<bd, current_style, mults, ia, iaStyle, discCalls, ubShift, inflight>>

EvaluateEndgameKing(color) ==
    /\ ret' = Call("evaluateEndgameKing", color, getKingSq(bd, color), "",
                   evaluateEndgameKing(bd, color))
    /\ UNCHANGED <<bd, current_style, mults, ia, iaStyle, discCalls, ubShift, inflight>>

EvaluateRookPlacement(color) ==
    /\ ret' = Call("evaluateRookPlacement", color, -1, "",
                   evaluateRookPlacement(bd, color))
    /\ UNCHANGED <<bd, current_style, mults, ia, iaStyle, discCalls, ubShift, inflight>>

EvaluateProphylaxis(color) ==
    /\ ret' = Call("evaluateProphylaxis", color, -1, "",
                   evaluateProphylaxis(bd, color))
    /\ UNCHANGED <<bd, current_style, mults, ia, iaStyle, discCalls, ubShift, inflight>>

CountForcingMoves(color) ==
    /\ ret' = Call("countForcingMoves", color, -1, "", countForcingMoves(bd, color))
    /\ UNCHANGED <<bd, current_style, mults, ia, iaStyle, discCalls, ubShift, inflight>>

Next ==
    \/ \E style \in Styles : SetStyle(style)
    \/ GetStyle
    \/ GetStyleMultipliers
    \/ AnalyzeImbalances
    \/ \E style \in Styles : CalculatePositionalDiscounts(style)
    \/ ExplainMove
    \/ \E color \in Colors : PawnSacrificeValue(color)
    \/ \E color \in Colors : AnalyzePawnStructure(color)
    \/ \E color \in Colors : EvaluateInitiative(color)
    \/ \E color \in Colors : EvaluateOpposition(color)

Spec == Init /\ [][Next]_vars

----------------------------------------------------------------------------
(* An evaluation on one thread while another thread changes the style:     *)
(* current_style is a plain static, read once, at line 1107.               *)

\* the evaluator enters analyzeImbalances and runs lines 1023-1105
BeginAnalyze ==
    /\ inflight.pc # "running"
    /\ inflight' = [pc |-> "running", style |-> current_style]
    /\ UNCHANGED <<bd, current_style, mults, ia, iaStyle, discCalls, ubShift, ret>>

\* line 1107 reads current_style, then the record is returned
EndAnalyze ==
    /\ inflight.pc = "running"
    /\ ia' = analyzeImbalances(bd)
    /\ iaStyle' = current_style
    /\ discCalls' = 0
    /\ inflight' = [inflight EXCEPT !.pc = "returned"]
    /\ ret' = Call("analyzeImbalances", -1, -1, "", 0)
    /\ UNCHANGED <<bd, current_style, mults, ubShift>>

NextRace ==
    \/ BeginAnalyze
    \/ \E style \in Styles : SetStyle(style)
    \/ EndAnalyze

RaceSpec == Init /\ [][NextRace]_vars

----------------------------------------------------------------------------
(* The pure analyzers applied once to a position drawn from a family.      *)

Idle == ret.op = "none"

MaxPawns == 3

\* files a, b, c, f; ranks 2, 3, 6
PawnSquares == {Sq(f, r) : f \in {0, 1, 2, 5}, r \in {1, 2, 5}}

\* every placement of at most n pawns of either colour, kings e1/e8
PawnPositions(n) ==
    LET sets == {S \in SUBSET PawnSquares : Cardinality(S) <= n}
        split == UNION {{<<w, S \ w>> : w \in SUBSET S} : S \in sets}
    IN  {Board(Side(pr[1], {}, {}, {}, {}, {4}), Side(pr[2], {}, {}, {}, {}, {60}),
               {}, WHITE) : pr \in split}

InitPawn == InitWith(PawnPositions(MaxPawns), {"CLASSICAL"})

NextPawn ==
    \/ Idle /\ \E color \in Colors : AnalyzePawnStructure(color)
    \/ Idle /\ \E color \in Colors : \E sq \in Squares : IsPassedPawn(color, sq)
    \/ Idle /\ \E color \in Colors : \E sq \in Squares : IsDoubledPawn(color, sq)
    \/ Idle /\ \E color \in Colors : \E sq \in Squares : IsBackwardPawn(color, sq)
    \/ Idle /\ \E color \in Colors : \E sq \in Squares : IsCandidatePawn(color, sq)
    \/ Idle /\ AnalyzeImbalances

PawnSpec == InitPawn /\ [][NextPawn]_vars

NumExchSq == 4

\* the squares the pieces of the exchange family stand on
ExchSquares == <<0, 18, 29, 35, 14, 49>>
ExchSq(n) == {ExchSquares[i] : i \in 1..n}

\* White: one rook and two or three minors on ExchSq(num); Black: rooks a8 h8 and a minor
\* on f6; kings e1/e8; either side to move
ExchPositions(num) ==
    {Board(Side({}, w.n, w.b, {w.r}, {}, {4}),
           Side({}, IF k = KNIGHTS THEN {45} ELSE {}, IF k = BISHOPS THEN {45} ELSE {},
                {56, 63}, {}, {60}),
           {}, stm) :
        w \in {x \in [r : ExchSq(num), n : SUBSET ExchSq(num), b : SUBSET ExchSq(num)] :
                 /\ x.r \notin x.n \cup x.b
                 /\ x.n \cap x.b = {}
                 /\ Cardinality(x.n) + Cardinality(x.b) \in {2, 3}},
        k \in {KNIGHTS, BISHOPS}, stm \in Colors}

InitExch == InitWith(ExchPositions(NumExchSq), Styles)

NextExch ==
    \/ Idle /\ \E color \in Colors : DetectExchangeSacrifice(color)
    \/ Idle /\ AnalyzeImbalances

ExchSpec == InitExch /\ [][NextExch]_vars

----------------------------------------------------------------------------
(* explainMove applied once to a record drawn from a family.               *)

NumNoteFlags == 6

\* the i-th field a record of the family may have set
NoteField(rec, i) ==
    CASE i = 1 -> [rec EXCEPT !.exchange_sacrifice = TRUE]
      [] i = 2 -> [rec EXCEPT !.open_file = TRUE]
      [] i = 3 -> [rec EXCEPT !.initiative = 20]
      [] i = 4 -> [rec EXCEPT !.material = -350]
      [] i = 5 -> [rec EXCEPT !.opposition_status = -15]
      [] i = 6 -> [rec EXCEPT !.development = 90]
      [] i = 7 -> [rec EXCEPT !.black_king_exposed = TRUE]
      [] OTHER -> [rec EXCEPT !.pawn_storm = TRUE]

RECURSIVE NoteRecord(_, _)
NoteRecord(on, i) ==
    IF i = 0 THEN ImbalanceAnalysis0
    ELSE IF i \in on THEN NoteField(NoteRecord(on, i - 1), i)
    ELSE NoteRecord(on, i - 1)

NoteRecords(n) == {NoteRecord(on, n) : on \in SUBSET (1..n)}

InitExplain ==
    /\ bd = OppositionPos
    /\ current_style = "CLASSICAL"
    /\ mults = InitMults
    /\ ia \in NoteRecords(NumNoteFlags)
    /\ iaStyle = "NONE"
    /\ discCalls = 0
    /\ ubShift = FALSE
    /\ inflight = NoFlight
    /\ ret = NoCall

NextExplain == Idle /\ ExplainMove

ExplainSpec == InitExplain /\ [][NextExplain]_vars

----------------------------------------------------------------------------
(* calculatePositionalDiscounts applied once to a record of a family, and  *)
(* analyzeImbalances under every style.                                    *)

MaxDiscount == 4

DiscRecords(n) ==
    {[ImbalanceAnalysis0 EXCEPT !.exchange_discount = x, !.initiative_discount = i,
                                !.white_king_exposed = w, !.black_king_exposed = b,
                                !.king_safety_discount = k] :
        x \in (-n)..n, i \in {0, 50}, w \in BOOLEAN, b \in BOOLEAN,
        k \in {-30, 0, 30}}

InitDisc ==
    /\ bd = ExchangePos
    /\ current_style \in Styles
    /\ mults = InitMults
    /\ ia \in DiscRecords(MaxDiscount)
    /\ iaStyle = "NONE"
    /\ discCalls = 0
    /\ ubShift = FALSE
    /\ inflight = NoFlight
    /\ ret = NoCall

NextDisc ==
    \/ Idle /\ \E style \in Styles : CalculatePositionalDiscounts(style)
    \/ Idle /\ AnalyzeImbalances

DiscSpec == InitDisc /\ [][NextDisc]_vars

----------------------------------------------------------------------------
(* The king analyzers applied once to a position with the kings anywhere.  *)

\* the castling rights a position can hold: a wing's flag needs the king
\* on its home square and the rook on its corner
KingRights(wk, bk) ==
    {c \in SUBSET AllCastle :
        /\ (c \cap WHITECASTLE # {} => wk = 4)
        /\ (c \cap BLACKCASTLE # {} => bk = 60)}

CornerRooks(c, color) ==
    IF color = WHITE
    THEN (IF "WK" \in c THEN {7} ELSE {}) \cup (IF "WQ" \in c THEN {0} ELSE {})
    ELSE (IF "BK" \in c THEN {63} ELSE {}) \cup (IF "BQ" \in c THEN {56} ELSE {})

\* every pair of distinct king squares, the side to move drawn from movers
KingPositions(movers) ==
    UNION {{Board(Side({}, {}, {}, CornerRooks(c, WHITE), {}, {pr[1]}),
                  Side({}, {}, {}, CornerRooks(c, BLACK), {}, {pr[2]}), c, stm) :
                c \in {x \in KingRights(pr[1], pr[2]) :
                          {pr[1], pr[2]} \cap (CornerRooks(x, WHITE) \cup CornerRooks(x, BLACK)) = {}},
                stm \in movers} :
            pr \in {q \in Squares \X Squares : q[1] # q[2]}}

InitKing == InitWith(KingPositions(Colors), {"CLASSICAL"})

NextKing ==
    \/ Idle /\ AnalyzeImbalances
    \/ Idle /\ \E color \in Colors : EvaluateOpposition(color)
    \/ Idle /\ \E color \in Colors : EvaluateEndgameKing(color)

KingSpec == InitKing /\ [][NextKing]_vars

\* one rook and up to n pawns of one colour on the a- or b-file
MaxFilePawns == 2

RookPositions(n) ==
    UNION {{Board(IF c = WHITE THEN Side({Sq(f, r) : r \in ps}, {}, {}, {Sq(f, rr)}, {}, {4})
                               ELSE NoSide(4),
                  IF c = BLACK THEN Side({Sq(f, r) : r \in ps}, {}, {}, {Sq(f, rr)}, {}, {60})
                               ELSE NoSide(60),
                  {}, WHITE) :
                ps \in {x \in SUBSET ((1..6) \ {rr}) : Cardinality(x) <= n}} :
            c \in Colors, f \in {0, 1}, rr \in 0..7}

InitRook == InitWith(RookPositions(MaxFilePawns), {"CLASSICAL"})

NextRook ==
    \/ Idle /\ \E color \in Colors : EvaluateRookPlacement(color)
    \/ Idle /\ \E color \in Colors : CountForcingMoves(color)
    \/ Idle /\ AnalyzeImbalances

RookSpec == InitRook /\ [][NextRook]_vars

\* the kings on a corner, an edge or an interior square, and one knight or
\* bishop of either colour anywhere else
MinorPositions ==
    UNION {{Board(Side({}, IF c = WHITE /\ pt = KNIGHTS THEN {sq} ELSE {},
                           IF c = WHITE /\ pt = BISHOPS THEN {sq} ELSE {}, {}, {}, {wk}),
                  Side({}, IF c = BLACK /\ pt = KNIGHTS THEN {sq} ELSE {},
                           IF c = BLACK /\ pt = BISHOPS THEN {sq} ELSE {}, {}, {}, {bk}),
                  {}, WHITE) :
                sq \in Squares \ {wk, bk}, c \in Colors, pt \in {KNIGHTS, BISHOPS}} :
            wk \in {0, 4, 20}, bk \in {63, 60, 43}}

InitMinor == InitWith(MinorPositions, {"CLASSICAL"})

NextMinor ==
    \/ Idle /\ \E color \in Colors : EvaluateProphylaxis(color)
    \/ Idle /\ AnalyzeImbalances

MinorSpec == InitMinor /\ [][NextMinor]_vars

\* one side holding up to n queens, two rooks and two knights against a bare king
MaxQueens == 5

HeavyPositions(n) ==
    UNION {{Board(IF c = WHITE THEN Side({}, 32..(31 + k), {}, 24..(23 + rk), 16..(15 + q), {4})
                               ELSE NoSide(4),
                  IF c = BLACK THEN Side({}, 32..(31 + k), {}, 24..(23 + rk), 16..(15 + q), {60})
                               ELSE NoSide(60),
                  {}, stm) :
                k \in 0..2, rk \in 0..2, stm \in Colors} :
            c \in Colors, q \in 0..n}

InitHeavy == InitWith(HeavyPositions(MaxQueens), {"CLASSICAL"})

NextHeavy == Idle /\ AnalyzeImbalances

HeavySpec == InitHeavy /\ [][NextHeavy]_vars

----------------------------------------------------------------------------
(* PROPERTIES                                                              *)

PawnsOf(b, color) == getPieces(b, color, PAWNS)

\* C1: after analyzePawnStructure(position, side), isolated_count plus
\* connected_count equals the number of that side's pawns on the board
\* (zero pawns: both counts are 0).
C1_IsolatedPlusConnected ==
    ret.op = "analyzePawnStructure" =>
        /\ ret.val.isolated_count + ret.val.connected_count
             = Cardinality(PawnsOf(bd, ret.color))
        /\ (PawnsOf(bd, ret.color) = {} =>
                ret.val.isolated_count = 0 /\ ret.val.connected_count = 0)

\* a side with an isolated pawn and two connected ones has been analysed
C1_Witness ==
    /\ ret.op = "analyzePawnStructure"
    /\ ret.val.isolated_count = 1
    /\ ret.val.connected_count = 2

\* no pawn of either colour on the adjacent files, none ahead on its own
\* file, no enemy pawn that captures it on the next rank
FreePawn(b, color, sq) ==
    LET all == PawnsOf(b, WHITE) \cup PawnsOf(b, BLACK)
        ahead == IF color = WHITE THEN (Rank(sq) + 1)..7 ELSE 0..(Rank(sq) - 1)
        cr == IF color = WHITE THEN Rank(sq) + 1 ELSE Rank(sq) - 1
    IN  /\ sq \in PawnsOf(b, color)
        /\ \A t \in all : Abs(File(t) - File(sq)) # 1
        /\ \A t \in all : ~(File(t) = File(sq) /\ Rank(t) \in ahead)
        /\ \A t \in PawnsOf(b, 1 - color) :
               ~(Rank(t) = cr /\ Abs(File(t) - File(sq)) = 1)

\* C2: a pawn with no pawn on the adjacent files, none ahead on its file and
\* no enemy pawn able to capture it is classified passed by isPassedPawn,
\* and analyzeImbalances then sets that side's has-passed-pawn flag.
C2_FreePawnIsPassed ==
    /\ (ret.op = "isPassedPawn" /\ FreePawn(bd, ret.color, ret.sq) => ret.val = TRUE)
    /\ (ret.op = "analyzeImbalances" =>
            /\ ((\E sq \in Squares : FreePawn(bd, WHITE, sq)) => ia.white_has_passed_pawn)
            /\ ((\E sq \in Squares : FreePawn(bd, BLACK, sq)) => ia.black_has_passed_pawn))

\* the position flipped rank-wise, the colours of all pieces, the castling
\* rights and the side to move swapped
MirrorSq(sq) == Sq(File(sq), 7 - Rank(sq))
MirrorFlag(fl) ==
    CASE fl = "WK" -> "BK" [] fl = "WQ" -> "BQ" [] fl = "BK" -> "WK" [] OTHER -> "WQ"
MirrorBoard(b) ==
    [pieces |-> [c \in Colors |->
                    [kd \in Kinds |-> {MirrorSq(sq) : sq \in b.pieces[1 - c][kd]}]],
     castle |-> {MirrorFlag(fl) : fl \in b.castle},
     stm |-> 1 - b.stm]

\* C3: evaluateInitiative is antisymmetric under colour mirroring:
\* evaluateInitiative(P, c) equals evaluateInitiative(P', opponent(c)) for
\* the mirrored position P'.
C3_InitiativeMirror ==
    ret.op = "evaluateInitiative" =>
        ret.val = evaluateInitiative(MirrorBoard(bd), 1 - ret.color)

\* C4: White king e1, Black king e3, White to move: the kings are in direct
\* opposition, evaluateOpposition(White) is -30 and evaluateOpposition(Black)
\* is +30.
C4_DirectOpposition ==
    bd = OppositionPos /\ ret.op = "evaluateOpposition" =>
        /\ ret.arg = "DIRECT"
        /\ ret.val = (IF ret.color = WHITE THEN -30 ELSE 30)

\* the pair fixed for each style, in tenths
ExpectedPair(style) ==
    CASE style = "CLASSICAL" -> <<10, 10>>
      [] style = "ATTACKING" -> <<12, 8>>
      [] style = "TACTICAL" -> <<13, 6>>
      [] style = "POSITIONAL" -> <<7, 13>>
      [] style = "TECHNICAL" -> <<6, 14>>

\* C5: setStyle(X) followed by getStyle() returns X, getStyleMultipliers()
\* then returns the pair fixed for X, and no call changes the contents of
\* the five multiplier tables.
C5_StyleRoundTrip ==
    [][ /\ (ret.op = "setStyle" /\ ret'.op = "getStyle" => ret'.val = ret.arg)
        /\ (ret.op = "setStyle" /\ ret'.op = "getStyleMultipliers" =>
                ret'.val = ExpectedPair(ret.arg))
        /\ (ret.op = "getStyle" /\ ret'.op = "getStyleMultipliers" =>
                ret'.val = ExpectedPair(ret.val))
        /\ mults' = mults
        /\ \A style \in Styles : mults'[StyleTable(style)] = ExpectedPair(style) ]_vars

\* the multipliers of Technical have been returned
C5_Witness ==
    /\ ret.op = "getStyleMultipliers"
    /\ current_style = "TECHNICAL"
    /\ ret.val = <<6, 14>>

\* White has one rook and two minor pieces, Black two rooks and one
ExchangeMaterial(b) ==
    /\ popcount(getPieces(b, WHITE, ROOKS)) = 1
    /\ popcount(getPieces(b, WHITE, KNIGHTS) \cup getPieces(b, WHITE, BISHOPS)) = 2
    /\ popcount(getPieces(b, BLACK, ROOKS)) = 2
    /\ popcount(getPieces(b, BLACK, KNIGHTS) \cup getPieces(b, BLACK, BISHOPS)) = 1

\* C6: with White 1 rook + 2 minors against Black 2 rooks + 1 minor,
\* detectExchangeSacrifice(White) returns true with the discount 170, and
\* analyzeImbalances sets exchange_sacrifice with a positive
\* exchange_discount under every playing style.
C6_ExchangeSacrifice ==
    ExchangeMaterial(bd) =>
        /\ (ret.op = "detectExchangeSacrifice" /\ ret.color = WHITE =>
                ret.val.found /\ ret.val.discount = 170)
        /\ (ret.op = "analyzeImbalances" =>
                ia.exchange_sacrifice /\ ia.exchange_discount > 0)

\* the aggregate under Technical, which halves the discount
C6_Witness ==
    /\ ExchangeMaterial(bd)
    /\ ret.op = "analyzeImbalances"
    /\ iaStyle = "TECHNICAL"
    /\ ia.exchange_sacrifice
    /\ ia.exchange_discount = 85

\* C7: for the starting position analyzeImbalances returns material 0 and
\* every structure/activity differential 0 (pawn_structure, space,
\* development, king_safety, activity).
C7_StartDifferentials ==
    bd = StartPos /\ ret.op = "analyzeImbalances" =>
        /\ ia.material = 0
        /\ ia.pawn_structure = 0
        /\ ia.space = 0
        /\ ia.development = 0
        /\ ia.king_safety = 0
        /\ ia.activity = 0

\* C8: for the starting position analyzeImbalances returns initiative +10.
C8_StartInitiative ==
    bd = StartPos /\ ret.op = "analyzeImbalances" => ia.initiative = 10

\* C9: for the starting position analyzeImbalances returns is_endgame false
\* and no plan flag, and explainMove on that record gives no note in any
\* bucket and the rationale "Developing move".
C9_StartQuiet ==
    /\ (bd = StartPos /\ ret.op = "analyzeImbalances" =>
            /\ ~ia.is_endgame
            /\ ~ia.minority_attack /\ ~ia.open_file /\ ~ia.rook_on_7th
            /\ ~ia.opposite_castling /\ ~ia.pawn_storm)
    /\ (bd = StartPos /\ ret.op = "explainMove" /\ iaStyle # "NONE" /\ discCalls = 0 =>
            /\ ret.val.move_reasons = <<>>
            /\ ret.val.imbalance_notes = <<>>
            /\ ret.val.sacrifice_notes = <<>>
            /\ ret.val.plan_notes = <<>>
            /\ ret.val.pv_explanation = "Developing move")

\* C10: the style is Classical initially and written only by setStyle, so
\* getStyle returns the argument of the latest setStyle whatever analyzer
\* calls came between; and for a fixed style a second analyzeImbalances on
\* the same position returns the same record.
C10_StyleFrame ==
    [][ /\ (ret.op = "none" => current_style = "CLASSICAL")
        /\ (ret'.op # "setStyle" => current_style' = current_style)
        /\ (ret'.op = "setStyle" => current_style' = ret'.arg)
        /\ (ret'.op = "getStyle" => ret'.val = current_style)
        /\ (ret'.op = "analyzeImbalances" /\ iaStyle = current_style /\ discCalls = 0
                => ia' = ia) ]_vars

\* getStyle answers Attacking after an analysis made under Attacking
C10_Witness ==
    /\ ret.op = "getStyle"
    /\ ret.val = "ATTACKING"
    /\ iaStyle = "ATTACKING"

\* C11: a style change affects only later calls: an analyzeImbalances call
\* that began under style X returns the record weighted with X even when
\* setStyle(Y) ran before it returned.
C11_StyleAtCallStart ==
    ret.op = "analyzeImbalances" /\ inflight.pc = "returned" =>
        ia = calculatePositionalDiscounts(AggregateImbalances(bd), inflight.style)

\* the notes joined by " | ", none before the first or after the last
RECURSIVE JoinNotes(_)
JoinNotes(notes) ==
    IF Len(notes) = 1 THEN notes[1]
    ELSE notes[1] \o " | " \o JoinNotes(Tail(notes))

\* C12: pv_explanation is the sacrifice notes, then the plan notes, then
\* the move reasons, then the imbalance notes, joined by " | " with no
\* leading or trailing separator; it is "Developing move" exactly when all
\* four buckets are empty.
C12_RationaleJoin ==
    ret.op = "explainMove" =>
        LET all == ret.val.sacrifice_notes \o ret.val.plan_notes
                   \o ret.val.move_reasons \o ret.val.imbalance_notes
        IN  /\ (all # <<>> => ret.val.pv_explanation = JoinNotes(all))
            /\ (ret.val.pv_explanation = "Developing move" <=> all = <<>>)

\* a rationale built from notes of all four buckets
C12_Witness ==
    /\ ret.op = "explainMove"
    /\ ret.val.sacrifice_notes # <<>>
    /\ Len(ret.val.plan_notes) = 2
    /\ ret.val.move_reasons # <<>>
    /\ ret.val.imbalance_notes # <<>>
    /\ ret.val.pv_explanation =
         "R for minor | Open file | Opp has opposition | Maintain initiative | Better development | Mat -3.0 | Strong initiative"

\* half of x, rounded toward zero
TowardZeroHalf(x) ==
    CHOOSE q \in (-Abs(x))..Abs(x) : Abs(2 * q) <= Abs(x) /\ Abs(x - 2 * q) <= 1

\* C13: calculatePositionalDiscounts doubles exchange_discount for Attacking
\* and Tactical, halves it toward zero for Positional and Technical and
\* leaves it for Classical; it sets initiative_discount to 50 for Attacking
\* and Tactical and leaves it otherwise (0 in a record analyzeImbalances
\* built).
C13_StyleDiscounts ==
    [][ /\ (ret'.op = "calculatePositionalDiscounts" =>
              /\ ia'.exchange_discount =
                    (IF ret'.arg \in {"ATTACKING", "TACTICAL"} THEN 2 * ia.exchange_discount
                     ELSE IF ret'.arg \in {"POSITIONAL", "TECHNICAL"}
                     THEN TowardZeroHalf(ia.exchange_discount)
                     ELSE ia.exchange_discount)
              /\ ia'.initiative_discount =
                    (IF ret'.arg \in {"ATTACKING", "TACTICAL"} THEN 50
                     ELSE ia.initiative_discount))
        /\ (ret'.op = "analyzeImbalances" =>
              ia'.initiative_discount =
                    (IF current_style \in {"ATTACKING", "TACTICAL"} THEN 50 ELSE 0)) ]_vars

\* a negative discount halved under Positional
C13_Witness ==
    /\ ret.op = "calculatePositionalDiscounts"
    /\ ret.arg = "POSITIONAL"
    /\ ia.exchange_discount = -1

\* the value the pawn-storm block leaves in king_safety_discount
StormDiscount(b) ==
    IF detectOppositeCastling(b)
    THEN (IF isKingVulnerableToStorm(b, WHITE) THEN -30 ELSE 0)
         + (IF isKingVulnerableToStorm(b, BLACK) THEN 30 ELSE 0)
    ELSE 0

\* C14: in every record analyzeImbalances returns, king_safety_discount is
\* -50 if white_king_exposed (also when black_king_exposed holds too), else
\* +50 if black_king_exposed, else the pawn-storm value; so it is one of
\* -50, -30, 0, +30, +50.
C14_KingSafetyOverwrite ==
    ret.op = "analyzeImbalances" =>
        /\ ia.king_safety_discount =
              (IF ia.white_king_exposed THEN -50
               ELSE IF ia.black_king_exposed THEN 50
               ELSE StormDiscount(bd))
        /\ ia.king_safety_discount \in {-50, -30, 0, 30, 50}

\* both kings exposed: White's verdict stands
C14_Witness ==
    /\ ret.op = "analyzeImbalances"
    /\ ia.white_king_exposed
    /\ ia.black_king_exposed
    /\ ia.king_safety_discount = -50

\* no enemy pawn on the pawn's file or an adjacent file at or ahead of its
\* rank, and none on an adjacent file of the next rank
NoEnemyAhead(b, color, sq) ==
    LET opp == PawnsOf(b, 1 - color)
        cr == IF color = WHITE THEN Rank(sq) + 1 ELSE Rank(sq) - 1
    IN  /\ \A t \in opp :
              ~(/\ Abs(File(t) - File(sq)) <= 1
                /\ (IF color = WHITE THEN Rank(t) >= Rank(sq) ELSE Rank(t) <= Rank(sq)))
        /\ \A t \in opp : ~(Abs(File(t) - File(sq)) = 1 /\ Rank(t) = cr)

\* C15: isPassedPawn(side, sq) is true exactly when no enemy pawn stands on
\* the pawn's file or an adjacent file at or ahead of its rank and none on
\* an adjacent file of the next rank; an enemy pawn directly in front
\* makes it false.
C15_PassedIff ==
    ret.op = "isPassedPawn" => (ret.val <=> NoEnemyAhead(bd, ret.color, ret.sq))

\* another pawn of the side stands further back on the pawn's file
PawnBehind(b, color, sq) ==
    \E t \in PawnsOf(b, color) :
        /\ File(t) = File(sq)
        /\ (IF color = WHITE THEN Rank(t) < Rank(sq) ELSE Rank(t) > Rank(sq))

\* C16: for both colours isDoubledPawn(side, sq) is true exactly when
\* another pawn of the side stands further back on the same file, so a
\* side with two pawns on one file has doubled_count >= 1.
C16_DoubledIff ==
    /\ (ret.op = "isDoubledPawn" => (ret.val <=> PawnBehind(bd, ret.color, ret.sq)))
    /\ (ret.op = "analyzePawnStructure" =>
            ((\E sq \in PawnsOf(bd, ret.color) : PawnBehind(bd, ret.color, sq))
                => ret.val.doubled_count >= 1))

\* C17: every pawn classified passed is classified candidate too:
\* isPassedPawn(side, sq) implies isCandidatePawn(side, sq), so
\* analyzePawnStructure yields passed_count <= candidate_count.
C17_PassedIsCandidate ==
    /\ (ret.op = "isCandidatePawn" =>
            (isPassedPawn(bd, ret.color, ret.sq) => ret.val))
    /\ (ret.op = "analyzePawnStructure" =>
            ret.val.passed_count <= ret.val.candidate_count)

\* the maximal runs of consecutive files that hold a pawn of the side
FileRuns(b, color) ==
    LET files == {File(sq) : sq \in PawnsOf(b, color)}
    IN  Cardinality({f \in files : (f - 1) \notin files})

\* C18: island_count is the number of maximal groups of the side's pawns
\* linked through file-adjacency (same or neighbouring files, whatever the
\* ranks), and avg_island_size is the pawn count divided by island_count,
\* truncated (0 without pawns).
C18_IslandsByFile ==
    ret.op = "analyzePawnStructure" =>
        /\ ret.val.island_count = FileRuns(bd, ret.color)
        /\ ret.val.avg_island_size =
              (IF FileRuns(bd, ret.color) = 0 THEN 0
               ELSE Cardinality(PawnsOf(bd, ret.color)) \div FileRuns(bd, ret.color))

\* no friendly pawn on an adjacent file one rank behind, and an enemy pawn
\* attacks the square directly ahead; never on the last rank
UnsupportedAndStopped(b, color, sq) ==
    LET dir == IF color = WHITE THEN 1 ELSE -1
        own == PawnsOf(b, color)
        opp == PawnsOf(b, 1 - color)
    IN  /\ Rank(sq) + dir \in 0..7
        /\ \A t \in own : ~(Abs(File(t) - File(sq)) = 1 /\ Rank(t) = Rank(sq) - dir)
        /\ \E t \in opp : Abs(File(t) - File(sq)) = 1 /\ Rank(t) = Rank(sq) + 2 * dir

\* C19: isBackwardPawn(side, sq) is true exactly when no friendly pawn
\* stands on an adjacent file one rank behind and an enemy pawn attacks the
\* square directly ahead; a pawn on its last rank is never backward, and
\* no attack wraps around the board edge.
C19_BackwardIff ==
    ret.op = "isBackwardPawn" =>
        (ret.val <=> UnsupportedAndStopped(bd, ret.color, ret.sq))

\* the type the file distance df and the rank distance dr of the kings fix
OppositionOf(df, dr) ==
    LET dist == df + dr
        shared == df = 0 \/ dr = 0
    IN  CASE df = dr /\ df % 2 = 1 -> "DIAGONAL"
          [] ~(df = dr /\ df % 2 = 1) /\ shared /\ dist % 2 = 1 -> "DIRECT"
          [] shared /\ dist % 2 = 0 /\ dist >= 2 -> "DISTANT"
          [] OTHER -> "NONE"

C21_OppositionScore ==
    ret.op = "evaluateOpposition" =>
        /\ (ret.arg = "DIRECT" =>
                ret.val = (IF ret.color = getPlayerToMove(bd) THEN -30 ELSE 30))
        /\ (ret.arg = "DISTANT" => Abs(ret.val) = 15)
        /\ (ret.arg = "DIAGONAL" => Abs(ret.val) = 10)
        /\ evaluateOpposition(bd, WHITE) = -evaluateOpposition(bd, BLACK)

\* Manhattan distance of a square to d4 (file d, rank 4)
DistToD4(sq) == Abs(File(sq) - 3) + Abs(Rank(sq) - 3)

\* C22: evaluateEndgameKing measures each king's Manhattan distance to d4;
\* the centrality part is (opponent distance - own distance) * 10 when the
\* own distance is strictly smaller and 0 otherwise, and the key-square part
\* is non-zero only when the own king stands on files d-e, ranks 4-6.
C22_EndgameKing ==
    ret.op = "evaluateEndgameKing" =>
        LET own == DistToD4(getKingSq(bd, ret.color))
            opp == DistToD4(getKingSq(bd, 1 - ret.color))
            centrality == IF own < opp THEN (opp - own) * 10 ELSE 0
        IN  ret.val # centrality =>
                /\ File(getKingSq(bd, ret.color)) \in {3, 4}
                /\ Rank(getKingSq(bd, ret.color)) \in {3, 4, 5}

\* one rook against the nearest friendly pawn ahead of it on its file
RookVsNearestAhead(b, color, rsq) ==
    LET ahead == {r \in 0..7 : /\ Sq(File(rsq), r) \in getPieces(b, color, PAWNS)
                               /\ (IF color = WHITE THEN r > Rank(rsq) ELSE r < Rank(rsq))}
        pr == IF color = WHITE THEN MinOf(ahead, -1) ELSE MaxOf(ahead, -1)
    IN  IF ahead = {} THEN 0
        ELSE IF (Rank(rsq) + File(rsq)) % 2 = (pr + File(rsq)) % 2 THEN -25 ELSE 15

\* C23: evaluateRookPlacement(side) scores each rook of the side against the
\* nearest friendly pawn ahead of it on the same file: +15 when the two
\* squares differ in colour, -25 when they agree, 0 when no friendly pawn is
\* ahead; for both colours and for files holding several friendly pawns.
C23_RookNearestAhead ==
    ret.op = "evaluateRookPlacement" =>
        ret.val = SumOver(RookVsNearestAhead, bd, ret.color, getPieces(bd, ret.color, ROOKS))

\* the squares on file a, file h, rank 1 or rank 8
BorderSquares == {s \in Squares : File(s) \in {0, 7} \/ Rank(s) \in {0, 7}}

\* the on-board squares a king's move away from sq
AdjacentSquares(sq) ==
    {s \in Squares : /\ s # sq
                     /\ Abs(File(s) - File(sq)) <= 1
                     /\ Abs(Rank(s) - Rank(sq)) <= 1}

\* C24: evaluateProphylaxis(side) adds 5 for each opponent knight or bishop on
\* a corner or edge square (file a, file h, rank 1 or rank 8) and nothing for
\* opponent minors on interior squares; its king term is (64 - number of
\* on-board squares adjacent to the opponent king) / 2, between 28 and 30.
C24_Prophylaxis ==
    ret.op = "evaluateProphylaxis" =>
        LET opp == 1 - ret.color
            minors == getPieces(bd, opp, KNIGHTS) \cup getPieces(bd, opp, BISHOPS)
            king_term == Div(64 - Cardinality(AdjacentSquares(getKingSq(bd, opp))), 2)
        IN  /\ king_term \in 28..30
            /\ ret.val = king_term
                         + 5 * Cardinality(minors \cap BorderSquares)
                         + 2 * Cardinality(OppOutposts(bd, ret.color))

\* what countForcingMoves counts for the knights, bishops, rooks and queens
PieceForcing(b, color) ==
    LET bq == getPieces(b, color, BISHOPS) \cup getPieces(b, color, QUEENS)
        rq == getPieces(b, color, ROOKS) \cup getPieces(b, color, QUEENS)
        open(sq) == getPieces(b, color, PAWNS) \cap FileMask(File(sq)) = {}
    IN  Cardinality(getPieces(b, color, KNIGHTS))
        + Cardinality(bq) + Cardinality({sq \in bq : InBox(sq)})
        + Cardinality(rq) + Cardinality({sq \in rq : open(sq)})

\* C25: countForcingMoves(side) adds exactly 2 for each of the side's pawns
\* one step from promotion (7th rank for White, 2nd rank for Black) and
\* nothing for pawns on any other rank: the mask-and-shift keeps every such
\* pawn and no other.
C25_AdvancedPawns ==
    ret.op = "countForcingMoves" =>
        ret.val - PieceForcing(bd, ret.color)
            = 2 * Cardinality(getPieces(bd, ret.color, PAWNS)
                              \cap RankMask(IF ret.color = WHITE THEN 6 ELSE 1))

\* C26: in analyzeImbalances the pawn_structure value, before the endgame
\* term is folded in, is the White-minus-Black differential
\* 30*(passed) - 25*(isolated) - 20*(backward) - 15*(doubled)
\* + 10*(black islands - white islands), so that each further isolated,
\* backward or doubled Black pawn raises it.
C26_PawnStructureDifferential ==
    ret.op = "analyzeImbalances" =>
        LET wp == ia.white_pawns
            bp == ia.black_pawns
            endgame_term == IF ia.is_endgame
                            THEN Div(ia.king_activity_white - ia.king_activity_black, 5)
                            ELSE 0
        IN  ia.pawn_structure - endgame_term
              = 30 * (wp.passed_count - bp.passed_count)
                - 25 * (wp.isolated_count - bp.isolated_count)
                - 20 * (wp.backward_count - bp.backward_count)
                - 15 * (wp.doubled_count - bp.doubled_count)
                + 10 * (bp.island_count - wp.island_count)

\* the pawn_structure terms of lines 1035-1039, from the counts of a record
PawnTerms(a) ==
    (a.white_pawns.passed_count * 30 - a.black_pawns.passed_count * 30)
    - (a.white_pawns.isolated_count * 25 + a.black_pawns.isolated_count * 25)
    - (a.white_pawns.backward_count * 20 + a.black_pawns.backward_count * 20)
    - (a.white_pawns.doubled_count * 15 + a.black_pawns.doubled_count * 15)
    + (a.black_pawns.island_count - a.white_pawns.island_count) * 10

\* C27: analyzeImbalances sets is_endgame, fills king_activity_white,
\* king_activity_black and opposition_status and adds (white endgame score -
\* black endgame score) / 5 to pawn_structure if and only if |material| is
\* below 2500; otherwise is_endgame is false, the three fields stay 0 and
\* pawn_structure gets no endgame term.
C27_EndgameByAbsMaterial ==
    ret.op = "analyzeImbalances" =>
        LET w_eg == evaluateEndgame(bd, WHITE)
            b_eg == evaluateEndgame(bd, BLACK)
        IN  IF Abs(ia.material) < 2500
            THEN /\ ia.is_endgame
                 /\ ia.king_activity_white = w_eg
                 /\ ia.king_activity_black = b_eg
                 /\ ia.opposition_status = evaluateOpposition(bd, WHITE)
                 /\ ia.pawn_structure = PawnTerms(ia) + Div(w_eg - b_eg, 5)
            ELSE /\ ~ia.is_endgame
                 /\ ia.king_activity_white = 0
                 /\ ia.king_activity_black = 0
                 /\ ia.opposition_status = 0
                 /\ ia.pawn_structure = PawnTerms(ia)

\* the side has fewer rooks and more minor pieces than its opponent
FewerRooksMoreMinors(b, color) ==
    /\ popcount(getPieces(b, color, ROOKS)) < popcount(getPieces(b, 1 - color, ROOKS))
    /\ popcount(getPieces(b, color, KNIGHTS) \cup getPieces(b, color, BISHOPS))
         > popcount(getPieces(b, 1 - color, KNIGHTS) \cup getPieces(b, 1 - color, BISHOPS))

\* C28: detectExchangeSacrifice(side) returns true exactly when the side has
\* fewer rooks and more minors than the opponent, writing discount =
\* (rook deficit) * 500 - (minor surplus) * 330, and otherwise returns false
\* leaving discount untouched; at most one side is detected, and in the
\* analyzeImbalances record exchange_discount is strictly positive whenever
\* White is the detected side and strictly negative whenever Black is.
C28_ExchangeDiscountSign ==
    /\ (ret.op = "detectExchangeSacrifice" =>
            LET opp == 1 - ret.color
                deficit == popcount(getPieces(bd, opp, ROOKS))
                           - popcount(getPieces(bd, ret.color, ROOKS))
                surplus == popcount(getPieces(bd, ret.color, KNIGHTS)
                                    \cup getPieces(bd, ret.color, BISHOPS))
                           - popcount(getPieces(bd, opp, KNIGHTS)
                                      \cup getPieces(bd, opp, BISHOPS))
            IN  /\ ret.val.found = FewerRooksMoreMinors(bd, ret.color)
                /\ ret.val.discount = IF ret.val.found
                                      THEN deficit * 500 - surplus * 330 ELSE 0)
    /\ ~(FewerRooksMoreMinors(bd, WHITE) /\ FewerRooksMoreMinors(bd, BLACK))
    /\ (ret.op = "analyzeImbalances" =>
            /\ (FewerRooksMoreMinors(bd, WHITE) => ia.exchange_discount > 0)
            /\ (FewerRooksMoreMinors(bd, BLACK) => ia.exchange_discount < 0))

\* one king on the kingside (files f-h), the other on the queenside (files a-d)
KingsOnOppositeFlanks(b) ==
    LET wf == File(getKingSq(b, WHITE))
        bf == File(getKingSq(b, BLACK))
    IN  (wf >= 5 /\ bf <= 3) \/ (wf <= 3 /\ bf >= 5)

\* C29: detectOppositeCastling is true only when the two sides have castled
\* on opposite flanks, and false when the kings are on the same flank or
\* still in the centre, whatever castling rights are lost; analyzeImbalances
\* sets opposite_castling and pawn_storm only for such positions.
C29_OppositeCastling ==
    ret.op = "analyzeImbalances" =>
        /\ ia.opposite_castling = detectOppositeCastling(bd)
        /\ (ia.opposite_castling => KingsOnOppositeFlanks(bd))
        /\ (ia.pawn_storm => KingsOnOppositeFlanks(bd))

\* a record with the two style discounts blanked
WithoutStyleDiscounts(a) ==
    [a EXCEPT !.exchange_discount = 0, !.initiative_discount = 0]

\* C30: the playing style influences only the two style discounts: the
\* record analyzeImbalances returns under the current style equals, in
\* every field except exchange_discount and initiative_discount, the record
\* of the same position under any other style, and explainMove gives the
\* same notes and rationale for both.
C30_StyleOnlyDiscounts ==
    ret.op = "analyzeImbalances" =>
        \A X \in Styles :
            LET ax == calculatePositionalDiscounts(AggregateImbalances(bd), X)
            IN  /\ WithoutStyleDiscounts(ax) = WithoutStyleDiscounts(ia)
                /\ explainMove(bd, 0, ax) = explainMove(bd, 0, ia)

\* an exchange sacrifice analysed under Attacking: both discounts differ
\* from the Classical ones (170 and 0)
C30_Witness ==
    /\ ret.op = "analyzeImbalances"
    /\ iaStyle = "ATTACKING"
    /\ ia.exchange_discount = 340
    /\ ia.initiative_discount = 50
    /\ calculatePositionalDiscounts(AggregateImbalances(bd), "CLASSICAL").exchange_discount = 170

=============================================================================
